---- MODULE Spec2Model ----
(***************************************************************************)
(* A model of ibis_mssql/compiler.py: the dialect's operation registry     *)
(* and type map as they are built at import time, the translation rules    *)
(* the registry holds, the SQL the rules emit as evaluated by the engine,  *)
(* and the _find_params helper.                                            *)
(***************************************************************************)
EXTENDS Integers, Sequences, FiniteSets, TLC

VARIABLES
    heap,         \* the dict objects, by identity (index)
    globals,      \* names bound to dict objects (0: not bound yet)
    pc,           \* position of the module's import
    call,         \* the expression handed to translate
    cpc,          \* position inside the rule translating it
    local,        \* the rule's local variable arg
    ret,          \* what the rule returned or raised
    val,          \* the value the engine computes for the emitted SQL
    expr,         \* _find_params: the expression graph
    stack,        \* _find_params: stack
    seen,         \* _find_params: seen
    seen_params,  \* _find_params: seen_params
    node,         \* _find_params: node
    idx,          \* _find_params: position of the for loop in node.flat_args()
    fpc,          \* _find_params: position
    fret          \* _find_params: what it returned or raised

vars == <<heap, globals, pc, call, cpc, local, ret, val,
          expr, stack, seen, seen_params, node, idx, fpc, fret>>

trVars == <<call, cpc, local, ret, val>>
fpVars == <<expr, stack, seen, seen_params, node, idx, fpc, fret>>
modVars == <<heap, globals, pc>>

(***************************************************************************)
(* Bounds                                                                  *)
(***************************************************************************)
MaxLen == 3       \* longest string literal
MaxInt == 4       \* integer operands range over -MaxInt..MaxInt
MaxArgs == 2      \* most flat_args of a node
MaxParam == 2     \* numeric arguments range over 1..MaxParam

(***************************************************************************)
(* Python values                                                           *)
(***************************************************************************)
None == [tag |-> "None"]
PyStr(s) == [py |-> "str", v |-> s]
PyObj(s) == [py |-> "object", v |-> s]
PyInt(n) == [py |-> "int", n |-> n]

Raise(exc) == [tag |-> "raise", exc |-> exc]

(***************************************************************************)
(* Operation kinds                                                         *)
(***************************************************************************)
ReductionKinds == {"Count", "Max", "Min", "Sum", "Mean"}

UnaryKinds == {"LStrip", "Lowercase", "RStrip", "Reverse", "StringLength",
               "Strip", "Uppercase", "Abs", "Acos", "Asin", "Atan", "Ceil",
               "Cos", "Floor", "Sign", "Sin", "Sqrt", "Tan"}

ExtractKinds == {"ExtractYear", "ExtractMonth", "ExtractDay", "ExtractHour",
                 "ExtractMinute", "ExtractSecond", "ExtractMillisecond"}

\* kinds of the host framework that the dialect neither overrides nor rejects
OtherKinds == {"Add", "Literal", "TableColumn"}

_unsupported_ops_list ==
    <<"NotContains", "NullIf", "NotAny",
      "Least", "Greatest",
      "Round", "Log2", "Ln", "Log10", "Log", "Exp", "Modulus",
      "Contains", "LPad", "RPad", "Capitalize", "RegexSearch",
      "RegexExtract", "RegexReplace", "StringAscii", "StringSQLLike",
      "CumulativeMax", "CumulativeMin", "CumulativeMean", "CumulativeSum",
      "TimestampTruncate">>

Range(s) == {s[i] : i \in DOMAIN s}

(***************************************************************************)
(* Rules: the callables a registry maps a kind to                          *)
(***************************************************************************)
Rule(name, f, extra) == [rule |-> name, f |-> f, extra |-> extra]

raise_unsupported_op_error_rule == Rule("raise_unsupported_op_error", None, None)

_reduction(func_name, cast_type) ==
    Rule("reduction_compiler", func_name, PyStr(cast_type))

unary(sa_func) == Rule("unary", PyObj(sa_func), None)
fixed_arity(sa_func, arity) == Rule("fixed_arity", PyObj(sa_func), PyInt(arity))
_extract(fmt) == Rule("translator", PyStr(fmt), None)

\* a rule of the host framework's own registry
AlchRule(kind) == Rule("alch", PyObj(kind), None)

\* the dict literal handed to the first _operation_registry.update
DialectOverrides ==
    [Count |-> _reduction(PyObj("sa.func.count"), "int32"),
     Max |-> _reduction(PyStr("max"), "int32"),
     Min |-> _reduction(PyStr("min"), "int32"),
     Sum |-> _reduction(PyStr("sum"), "int32"),
     Mean |-> _reduction(PyStr("avg"), "float64"),
     LStrip |-> unary("ltrim"),
     Lowercase |-> unary("lower"),
     RStrip |-> unary("rtrim"),
     Repeat |-> fixed_arity("replicate", 2),
     Reverse |-> unary("reverse"),
     StringFind |-> Rule("_string_find", None, None),
     StringLength |-> unary("length"),
     StringReplace |-> fixed_arity("replace", 3),
     Strip |-> unary("trim"),
     Substring |-> Rule("_substr", None, None),
     Uppercase |-> unary("upper"),
     Abs |-> unary("abs"),
     Acos |-> unary("acos"),
     Asin |-> unary("asin"),
     Atan2 |-> fixed_arity("atn2", 2),
     Atan |-> unary("atan"),
     Ceil |-> unary("ceiling"),
     Cos |-> unary("cos"),
     Floor |-> unary("floor"),
     FloorDivide |-> Rule("_floor_divide", None, None),
     Power |-> fixed_arity("power", 2),
     Sign |-> unary("sign"),
     Sin |-> unary("sin"),
     Sqrt |-> unary("sqrt"),
     Tan |-> unary("tan"),
     TimestampNow |-> fixed_arity("GETDATE", 0),
     ExtractYear |-> _extract("year"),
     ExtractMonth |-> _extract("month"),
     ExtractDay |-> _extract("day"),
     ExtractHour |-> _extract("hour"),
     ExtractMinute |-> _extract("minute"),
     ExtractSecond |-> _extract("second"),
     ExtractMillisecond |-> _extract("millisecond")]

\* _unsupported_ops after line 176: every listed kind to the rejecting rule
_unsupported_ops ==
    [k \in Range(_unsupported_ops_list) |-> raise_unsupported_op_error_rule]

\* the dict literal handed to _type_map.update
TypeMapOverrides ==
    [Boolean |-> PyObj("pyodbc.SQL_BIT"),
     Int8 |-> PyObj("mssql.TINYINT"),
     Int32 |-> PyObj("mssql.INTEGER"),
     Int64 |-> PyObj("mssql.BIGINT"),
     Float |-> PyObj("mssql.REAL"),
     Double |-> PyObj("mssql.REAL"),
     String |-> PyObj("mssql.VARCHAR")]

Kinds == DOMAIN DialectOverrides \cup DOMAIN _unsupported_ops \cup OtherKinds

(***************************************************************************)
(* dict.copy and dict.update on the heap of dict objects                   *)
(***************************************************************************)
DictAlias(h, ref) == [heap |-> h, ref |-> ref]

\* dict.copy(): a new object holding the same entries
DictCopy(h, ref) == [heap |-> Append(h, h[ref]), ref |-> Len(h) + 1]

MergeKeepOld(d, u) ==
    [k \in DOMAIN d \cup DOMAIN u |-> IF k \in DOMAIN d THEN d[k] ELSE u[k]]

\* the entries of d after d.update(u): u's entries win
Merge(d, u) ==
    [k \in DOMAIN d \cup DOMAIN u |-> IF k \in DOMAIN u THEN u[k] ELSE d[k]]

\* d.update(u) in place on the object ref
DictUpdate(h, ref, u) == [h EXCEPT ![ref] = Merge(h[ref], u)]

(***************************************************************************)
(* The host framework's tables, as the import finds them                   *)
(***************************************************************************)
AlchRegistries ==
    { [k \in dom |-> AlchRule(k)] :
        dom \in { (IF a THEN DOMAIN DialectOverrides ELSE {})
                  \cup (IF b THEN DOMAIN _unsupported_ops ELSE {})
                  \cup OtherKinds : a, b \in BOOLEAN } }

AlchRewrites == [k \in {"Add"} |-> AlchRule("rewrite")]

AlchTypeMaps ==
    { [k \in dom |-> PyObj("sa.types")] :
        dom \in { {"Boolean", "Int64", "Timestamp"}, {"Timestamp"} } }

BaseRegistryRef == 1
BaseRewritesRef == 2
BaseTypeMapRef == 3

InitModule ==
    /\ \E r \in AlchRegistries, tm \in AlchTypeMaps :
          heap = <<r, AlchRewrites, tm>>
    /\ globals = [_operation_registry |-> 0, _rewrites |-> 0, _type_map |-> 0]
    /\ pc = "L90"

\* line 90: _operation_registry = alch._operation_registry.copy()
CopyRegistry ==
    /\ pc = "L90"
    /\ LET c == DictCopy(heap, BaseRegistryRef) IN
          /\ heap' = c.heap
          /\ globals' = [globals EXCEPT !._operation_registry = c.ref]
    /\ pc' = "L92"
    /\ UNCHANGED <<trVars, fpVars>>

\* lines 92-137: _operation_registry.update({...})
UpdateOverrides ==
    /\ pc = "L92"
    /\ heap' = DictUpdate(heap, globals._operation_registry, DialectOverrides)
    /\ pc' = "L176"
    /\ UNCHANGED <<globals, trVars, fpVars>>

\* lines 176-177: _operation_registry.update(_unsupported_ops)
UpdateUnsupported ==
    /\ pc = "L176"
    /\ heap' = DictUpdate(heap, globals._operation_registry, _unsupported_ops)
    /\ pc' = "L182"
    /\ UNCHANGED <<globals, trVars, fpVars>>

\* line 182: _rewrites = alch.AlchemyExprTranslator._rewrites.copy()
CopyRewrites ==
    /\ pc = "L182"
    /\ LET c == DictCopy(heap, BaseRewritesRef) IN
          /\ heap' = c.heap
          /\ globals' = [globals EXCEPT !._rewrites = c.ref]
    /\ pc' = "L183"
    /\ UNCHANGED <<trVars, fpVars>>

\* line 183: _type_map = alch.AlchemyExprTranslator._type_map.copy()
CopyTypeMap ==
    /\ pc = "L183"
    /\ LET c == DictCopy(heap, BaseTypeMapRef) IN
          /\ heap' = c.heap
          /\ globals' = [globals EXCEPT !._type_map = c.ref]
    /\ pc' = "L184"
    /\ UNCHANGED <<trVars, fpVars>>

\* lines 184-194: _type_map.update({...})
UpdateTypeMap ==
    /\ pc = "L184"
    /\ heap' = DictUpdate(heap, globals._type_map, TypeMapOverrides)
    /\ pc' = "imported"
    /\ UNCHANGED <<globals, trVars, fpVars>>

Import ==
    \/ CopyRegistry
    \/ UpdateOverrides
    \/ UpdateUnsupported
    \/ CopyRewrites
    \/ CopyTypeMap
    \/ UpdateTypeMap

(***************************************************************************)
(* Expressions of the host framework and the SQL expressions rules emit    *)
(***************************************************************************)
Column(name, ty) == [tag |-> "Column", name |-> name, ty |-> ty]
StrLit(s) == [tag |-> "Literal", ty |-> "string", s |-> s]
IntLit(n) == [tag |-> "Literal", ty |-> "int64", n |-> n]

\* arg.cast(cast_type)
ExprCast(arg, to) == [tag |-> "Cast", arg |-> arg, to |-> to]
\* where.ifelse(arg, None)
ExprIfElse(cond, then, else) ==
    [tag |-> "Where", cond |-> cond, then |-> then, else |-> else]

\* t.translate(e): the host framework's SQL expression for e
Translate(e) == [tag |-> "sa", of |-> e]
\* a Python int coerced to a bound literal by an SQL operator
Bind(n) == [tag |-> "bind", n |-> n]
BinOp(op, l, r) == [tag |-> "binop", op |-> op, l |-> l, r |-> r]
Func(name, args) == [tag |-> "func", name |-> name, args |-> args]
LiteralColumn(text) == [tag |-> "literal_column", text |-> text]
SaCast(e, ty) == [tag |-> "cast", arg |-> e, to |-> ty]

Strings(n) == UNION { [1..k -> {"a", "b"}] : k \in 0..n }

ReductionCalls ==
    { [kind |-> k, args |-> <<Column("x", ty), w>>] :
        k \in ReductionKinds,
        ty \in {"boolean", "int64", "float64"},
        w \in {None, Column("p", "boolean")} }

SubstringCalls ==
    { [kind |-> "Substring", args |-> <<StrLit(s), IntLit(st), ln>>] :
        s \in Strings(MaxLen),
        st \in 0..MaxLen,
        ln \in {None} \cup {IntLit(n) : n \in 0..MaxLen} }

StringFindCalls ==
    { [kind |-> "StringFind", args |-> <<StrLit(s), StrLit(sub), st, None>>] :
        s \in Strings(MaxLen),
        sub \in Strings(MaxLen) \ {<<>>},
        st \in {None} \cup {IntLit(n) : n \in 0..MaxLen} }

FloorDivideCalls ==
    { [kind |-> "FloorDivide", args |-> <<IntLit(a), IntLit(b)>>] :
        a \in -MaxInt..MaxInt, b \in -MaxInt..MaxInt }

OneArgCalls ==
    { [kind |-> k, args |-> <<Column("x", "int64")>>] :
        k \in DOMAIN _unsupported_ops \cup ExtractKinds \cup UnaryKinds \cup OtherKinds }

Calls ==
    ReductionCalls \cup SubstringCalls \cup StringFindCalls
        \cup FloorDivideCalls \cup OneArgCalls

\* MSSQLExprTranslator._registry, line 181
Registry == heap[globals._operation_registry]

\* the rule the translator finds for the expression in hand
RuleOf(c) == Registry[c.kind]

(***************************************************************************)
(* translate(expr): the translator looks the kind up and calls its rule    *)
(***************************************************************************)
BeginTranslate ==
    /\ pc = "imported"
    /\ cpc = "idle"
    /\ \E c \in Calls : call' = c
    /\ cpc' = "dispatch"
    /\ UNCHANGED <<modVars, local, ret, val, fpVars>>

\* lines 14-17
raise_unsupported_op_error ==
    /\ cpc = "dispatch"
    /\ RuleOf(call).rule = "raise_unsupported_op_error"
    /\ ret' = Raise("UnsupportedOperationError")
    /\ cpc' = "done"
    /\ UNCHANGED <<modVars, call, local, val, fpVars>>

\* line 25: arg, where = expr.op().args
reduction_compiler_Enter ==
    /\ cpc = "dispatch"
    /\ RuleOf(call).rule = "reduction_compiler"
    /\ local' = call.args[1]
    /\ cpc' = "L27"
    /\ UNCHANGED <<modVars, call, ret, val, fpVars>>

CastAlways(arg, cast_type) == ExprCast(arg, cast_type)

\* lines 27-28
CastIfBoolean(arg, cast_type) ==
    IF arg.ty = "boolean" THEN ExprCast(arg, cast_type) ELSE arg

reduction_compiler_Cast ==
    /\ cpc = "L27"
    /\ local' = CastIfBoolean(local, RuleOf(call).extra.v)
    /\ cpc' = "L30"
    /\ UNCHANGED <<modVars, call, ret, val, fpVars>>

\* line 30: getattr(sa.func, func_name) needs func_name to be a str
GetAttrOk(func_name) == func_name.py = "str"

reduction_compiler_GetAttr ==
    /\ cpc = "L30"
    /\ IF GetAttrOk(RuleOf(call).f)
         THEN cpc' = "L32" /\ ret' = ret
         ELSE cpc' = "done" /\ ret' = Raise("TypeError")
    /\ UNCHANGED <<modVars, call, local, val, fpVars>>

\* lines 32-33
ApplyWhere(arg, where) ==
    IF where # None THEN ExprIfElse(where, arg, None) ELSE arg

reduction_compiler_Where ==
    /\ cpc = "L32"
    /\ local' = ApplyWhere(local, call.args[2])
    /\ cpc' = "L34"
    /\ UNCHANGED <<modVars, call, ret, val, fpVars>>

\* line 34
reduction_compiler_Return ==
    /\ cpc = "L34"
    /\ ret' = Func(RuleOf(call).f.v, <<Translate(local)>>)
    /\ cpc' = "done"
    /\ UNCHANGED <<modVars, call, local, val, fpVars>>

SubstrNoShift(arg, start, length) ==
    IF length = None
      THEN Func("substring", <<Translate(arg), Translate(start)>>)
      ELSE Func("substring", <<Translate(arg), Translate(start), Translate(length)>>)

\* lines 44-55
SubstrSQL(arg, start, length) ==
    LET sa_arg == Translate(arg)
        sa_start == Translate(start)
    IN  IF length = None
          THEN Func("substring", <<sa_arg, BinOp("+", sa_start, Bind(1))>>)
          ELSE Func("substring",
                    <<sa_arg, BinOp("+", sa_start, Bind(1)), Translate(length)>>)

_substr ==
    /\ cpc = "dispatch"
    /\ RuleOf(call).rule = "_substr"
    /\ ret' = SubstrSQL(call.args[1], call.args[2], call.args[3])
    /\ cpc' = "done"
    /\ UNCHANGED <<modVars, call, local, val, fpVars>>

\* lines 59-68
StringFindSQL(arg, substr, start) ==
    LET sa_arg == Translate(arg)
        sa_substr == Translate(substr)
    IN  IF start # None
          THEN BinOp("-", Func("charindex", <<sa_substr, sa_arg, Translate(start)>>),
                     Bind(1))
          ELSE BinOp("-", Func("charindex", <<sa_substr, sa_arg>>), Bind(1))

_string_find ==
    /\ cpc = "dispatch"
    /\ RuleOf(call).rule = "_string_find"
    /\ ret' = StringFindSQL(call.args[1], call.args[2], call.args[3])
    /\ cpc' = "done"
    /\ UNCHANGED <<modVars, call, local, val, fpVars>>

\* lines 73-74
FloorDivideSQL(l, r) ==
    Func("floor", <<BinOp("/", Translate(l), Translate(r))>>)

_floor_divide ==
    /\ cpc = "dispatch"
    /\ RuleOf(call).rule = "_floor_divide"
    /\ ret' = FloorDivideSQL(call.args[1], call.args[2])
    /\ cpc' = "done"
    /\ UNCHANGED <<modVars, call, local, val, fpVars>>

\* lines 78-85
ExtractSQL(fmt, arg) ==
    SaCast(Func("datepart", <<LiteralColumn(fmt), Translate(arg)>>), "SMALLINT")

translator ==
    /\ cpc = "dispatch"
    /\ RuleOf(call).rule = "translator"
    /\ ret' = ExtractSQL(RuleOf(call).f.v, call.args[1])
    /\ cpc' = "done"
    /\ UNCHANGED <<modVars, call, local, val, fpVars>>

\* rules of the host framework: unary(f), fixed_arity(f, n) and the
\* base registry's own rules emit a call on the translated arguments
HostRule ==
    /\ cpc = "dispatch"
    /\ RuleOf(call).rule \in {"unary", "fixed_arity", "alch"}
    /\ ret' = Func(RuleOf(call).f.v, [i \in DOMAIN call.args |-> Translate(call.args[i])])
    /\ cpc' = "done"
    /\ UNCHANGED <<modVars, call, local, val, fpVars>>

(***************************************************************************)
(* The engine's value for an emitted expression over literals              *)
(***************************************************************************)
\* an exact number num/den, den > 0; an integer has den = 1
NumV(num, den) == [k |-> "num", num |-> num, den |-> den]
StrV(s) == [k |-> "str", s |-> s]
ErrV == [k |-> "error"]

Abs(n) == IF n < 0 THEN -n ELSE n

\* integer / integer: the quotient with its fractional part cut off
SqlIntDivide(a, b) ==
    IF b = 0 THEN ErrV
    ELSE LET q == Abs(a) \div Abs(b)
         IN  NumV(IF (a < 0) # (b < 0) THEN -q ELSE q, 1)

\* floor(v): the largest integer not above v
SqlFloor(v) == IF v.k = "num" THEN NumV(v.num \div v.den, 1) ELSE ErrV

Min(S) == CHOOSE m \in S : \A n \in S : m <= n

\* charindex(sub, s, start): the one-based position of the first occurrence
\* of sub in s at or after the one-based position start, 0 when there is
\* none; the search starts at the beginning when start is below 1
CharIndex(sub, s, start) ==
    LET from == IF start < 1 THEN 1 ELSE start
        hits == { p \in from..(Len(s) - Len(sub) + 1) :
                     SubSeq(s, p, p + Len(sub) - 1) = sub }
    IN  IF hits = {} THEN 0 ELSE Min(hits)

RECURSIVE EvalSQL(_)
EvalSQL(e) ==
    CASE e.tag = "sa" ->
           IF e.of.ty = "string" THEN StrV(e.of.s) ELSE NumV(e.of.n, 1)
      [] e.tag = "bind" -> NumV(e.n, 1)
      [] e.tag = "binop" ->
           LET l == EvalSQL(e.l)
               r == EvalSQL(e.r)
           IN  IF l.k # "num" \/ r.k # "num" THEN ErrV
               ELSE IF e.op = "+" THEN NumV(l.num + r.num, 1)
               ELSE IF e.op = "-" THEN NumV(l.num - r.num, 1)
               ELSE SqlIntDivide(l.num, r.num)
      [] e.tag = "func" /\ e.name = "floor" -> SqlFloor(EvalSQL(e.args[1]))
      [] e.tag = "func" /\ e.name = "charindex" ->
           NumV(CharIndex(EvalSQL(e.args[1]).s, EvalSQL(e.args[2]).s,
                          IF Len(e.args) = 3 THEN EvalSQL(e.args[3]).num ELSE 1), 1)

\* the engine runs the SQL emitted for a string search or a floor division
Execute ==
    /\ cpc = "done"
    /\ call.kind \in {"StringFind", "FloorDivide"}
    /\ val' = EvalSQL(ret)
    /\ cpc' = "executed"
    /\ UNCHANGED <<modVars, call, local, ret, fpVars>>

(***************************************************************************)
(* _find_params(expr), lines 208-244                                       *)
(***************************************************************************)
MaxNodes == 2     \* nodes of an expression graph; node 1 is expr.op()

NodeIds == 1..MaxNodes

IntArg(n) == [t |-> "int", v |-> n]
FloatArg(n) == [t |-> "float", v |-> n]     \* the float n.0
StrArg == [t |-> "str"]
ExprArg(n) == [t |-> "expr", op |-> n]      \* an ir.Expr whose op() is node n

ArgValues ==
    {IntArg(n) : n \in 1..MaxParam} \cup {FloatArg(n) : n \in 1..MaxParam}
        \cup {StrArg} \cup {ExprArg(n) : n \in NodeIds}

\* node.flat_args() of every node: any arguments, also shared and cyclic
Graphs == [NodeIds -> UNION { [1..k -> ArgValues] : k \in 0..MaxArgs }]

\* isinstance(arg, int) or isinstance(arg, float), lines 234-235
IsNumber(arg) == arg.t \in {"int", "float"}

\* x in seen_params: Python compares by value, 1 == 1.0
InParams(arg, params) == \E i \in DOMAIN params : params[i].v = arg.v

Reverse(s) == [i \in DOMAIN s |-> s[Len(s) + 1 - i]]

PyList(items) == [tag |-> "list", items |-> items]

\* lines 222-225
_find_params_Call ==
    /\ pc = "imported"
    /\ fpc = "idle"
    /\ \E g \in Graphs : expr' = g
    /\ seen_params' = <<>>
    /\ stack' = <<1>>
    /\ seen' = <<>>
    /\ fpc' = "while"
    /\ UNCHANGED <<modVars, trVars, node, idx, fret>>

\* lines 227-231
_find_params_Pop ==
    /\ fpc = "while"
    /\ stack # <<>>
    /\ node' = stack[Len(stack)]
    /\ stack' = SubSeq(stack, 1, Len(stack) - 1)
    /\ IF node' \notin Range(seen)
         THEN seen' = Append(seen, node') /\ idx' = 1 /\ fpc' = "for"
         ELSE UNCHANGED <<seen, idx, fpc>>
    /\ UNCHANGED <<modVars, trVars, expr, seen_params, fret>>

\* lines 233-237: a numeric argument
_find_params_Number ==
    /\ fpc = "for"
    /\ idx <= Len(expr[node])
    /\ IsNumber(expr[node][idx])
    /\ seen_params' = IF InParams(expr[node][idx], seen_params)
                        THEN seen_params
                        ELSE Append(seen_params, expr[node][idx])
    /\ idx' = idx + 1
    /\ UNCHANGED <<modVars, trVars, expr, stack, seen, node, fpc, fret>>

\* line 238: any other argument reaches isinstance(arg, ir.Expr); the module
\* binds no name ir (lines 1-11), so evaluating it raises NameError and
\* line 239 is never reached
_find_params_NameError ==
    /\ fpc = "for"
    /\ idx <= Len(expr[node])
    /\ ~IsNumber(expr[node][idx])
    /\ fret' = Raise("NameError")
    /\ fpc' = "raised"
    /\ UNCHANGED <<modVars, trVars, expr, stack, seen, seen_params, node, idx>>

\* line 233: the for loop is exhausted
_find_params_EndFor ==
    /\ fpc = "for"
    /\ idx > Len(expr[node])
    /\ fpc' = "while"
    /\ UNCHANGED <<modVars, trVars, expr, stack, seen, seen_params, node, idx, fret>>

\* lines 243-244
_find_params_Return ==
    /\ fpc = "while"
    /\ stack = <<>>
    /\ fret' = PyList(Reverse(seen_params))
    /\ fpc' = "returned"
    /\ UNCHANGED <<modVars, trVars, expr, stack, seen, seen_params, node, idx>>

InitIdleCall ==
    /\ call = None
    /\ cpc = "idle"
    /\ local = None
    /\ ret = None
    /\ val = None

InitIdleFind ==
    /\ expr = None
    /\ stack = <<>>
    /\ seen = <<>>
    /\ seen_params = <<>>
    /\ node = None
    /\ idx = 0
    /\ fpc = "idle"
    /\ fret = None

Init == InitModule /\ InitIdleCall /\ InitIdleFind

Next ==
    \/ Import
    \/ BeginTranslate
    \/ raise_unsupported_op_error
    \/ reduction_compiler_Enter
    \/ reduction_compiler_Cast
    \/ reduction_compiler_GetAttr
    \/ reduction_compiler_Where
    \/ reduction_compiler_Return
    \/ _substr
    \/ _string_find
    \/ _floor_divide
    \/ translator
    \/ HostRule
    \/ Execute

Spec == Init /\ [][Next]_vars

\* _find_params after the import from one of the host's registries
InitFind ==
    /\ heap = <<[k \in Kinds |-> AlchRule(k)], AlchRewrites,
                [k \in {"Timestamp"} |-> PyObj("sa.types")]>>
    /\ globals = [_operation_registry |-> 0, _rewrites |-> 0, _type_map |-> 0]
    /\ pc = "L90"
    /\ InitIdleCall
    /\ InitIdleFind

NextFind ==
    \/ Import
    \/ _find_params_Call
    \/ _find_params_Pop
    \/ _find_params_Number
    \/ _find_params_NameError
    \/ _find_params_EndFor
    \/ _find_params_Return

SpecFind == InitFind /\ [][NextFind]_vars

(***************************************************************************)
(* Properties                                                              *)
(***************************************************************************)
CallArg(i) == call.args[i]
ImportPastUnsupported == pc \in {"L182", "L183", "L184", "imported"}

UnsupportedKindsListed ==
    {"NotContains", "NullIf", "NotAny", "Least", "Greatest", "Round", "Log2",
     "Ln", "Log10", "Log", "Exp", "Modulus", "Contains", "LPad", "RPad",
     "Capitalize", "RegexSearch", "RegexExtract", "RegexReplace",
     "StringAscii", "StringSQLLike", "CumulativeMax", "CumulativeMin",
     "CumulativeMean", "CumulativeSum", "TimestampTruncate"}

\* C1: once both registry updates have run, every kind listed as unsupported
\* maps to the rejecting rule in the dialect registry, whatever the base
\* registry held for it, and translating an expression of such a kind ends
\* in UnsupportedOperationError, never in SQL.
C1_UnsupportedRejected ==
    /\ ImportPastUnsupported =>
          \A k \in UnsupportedKindsListed :
              /\ k \in DOMAIN Registry
              /\ Registry[k].rule = "raise_unsupported_op_error"
    /\ (cpc = "done" /\ call.kind \in UnsupportedKindsListed) =>
          ret = Raise("UnsupportedOperationError")

C1_Witness ==
    /\ cpc = "done"
    /\ call.kind = "Round"
    /\ "Round" \in DOMAIN heap[BaseRegistryRef]
    /\ heap[BaseRegistryRef]["Round"].rule = "alch"
    /\ ret = Raise("UnsupportedOperationError")

SqlAggregate ==
    [Count |-> "count", Max |-> "max", Min |-> "min", Sum |-> "sum", Mean |-> "avg"]

\* C2: translating an expression of any of the five aggregate kinds succeeds
\* and emits a call of the corresponding SQL aggregate function on the
\* translated argument.
C2_AggregatesEmit ==
    (cpc = "done" /\ call.kind \in DOMAIN SqlAggregate) =>
        /\ ret.tag = "func"
        /\ ret.name = SqlAggregate[call.kind]
        /\ ret.args = <<Translate(local)>>

BaseTablesKept ==
    /\ heap'[BaseRegistryRef] = heap[BaseRegistryRef]
    /\ heap'[BaseRewritesRef] = heap[BaseRewritesRef]
    /\ heap'[BaseTypeMapRef] = heap[BaseTypeMapRef]

DialectTablesPrivate ==
    pc = "imported" =>
        /\ globals._operation_registry # BaseRegistryRef
        /\ globals._rewrites # BaseRewritesRef
        /\ globals._type_map # BaseTypeMapRef
        /\ heap[globals._rewrites] = heap[BaseRewritesRef]
        /\ \A k \in DOMAIN heap[BaseRegistryRef] :
              k \notin DOMAIN DialectOverrides \cup UnsupportedKindsListed =>
                  Registry[k] = heap[BaseRegistryRef][k]
        /\ \A k \in DOMAIN heap[BaseTypeMapRef] :
              k \notin DOMAIN TypeMapOverrides =>
                  heap[globals._type_map][k] = heap[BaseTypeMapRef][k]

\* C4: no step of the import changes the host framework's operation
\* registry, rewrite table or type map; the dialect's three tables are
\* private copies, and a kind the dialect neither overrides nor rejects maps
\* to the same rule in the dialect registry as in the base registry.
C4_BaseTablesUnchanged == [][BaseTablesKept]_vars /\ []DialectTablesPrivate

C4_Witness ==
    /\ pc = "imported"
    /\ "Count" \in DOMAIN heap[BaseRegistryRef]
    /\ "Round" \in DOMAIN heap[BaseRegistryRef]
    /\ "Boolean" \in DOMAIN heap[BaseTypeMapRef]
    /\ Registry["Count"] # heap[BaseRegistryRef]["Count"]
    /\ Registry["Round"] # heap[BaseRegistryRef]["Round"]
    /\ heap[globals._type_map]["Boolean"] # heap[BaseTypeMapRef]["Boolean"]
    /\ Registry["Add"] = heap[BaseRegistryRef]["Add"]

\* the zero-based index of the first occurrence of sub in s at or after the
\* zero-based position start, -1 when there is none
ZeroBasedFind(s, sub, start) ==
    LET hits == { i \in start..(Len(s) - Len(sub)) :
                     SubSeq(s, i + 1, i + Len(sub)) = sub }
    IN  IF hits = {} THEN -1 ELSE Min(hits)

\* C6: the expression emitted for StringFind evaluates to the zero-based
\* index of the first occurrence of substr in arg at or after the caller's
\* zero-based start, and to -1 when there is none.
C6_StringFindZeroBased ==
    (cpc = "executed" /\ call.kind = "StringFind") =>
        val = NumV(ZeroBasedFind(CallArg(1).s, CallArg(2).s,
                                 IF CallArg(3) = None THEN 0 ELSE CallArg(3).n), 1)

\* C7: Substring emits substring(arg, start + 1, length), or
\* substring(arg, start + 1) with exactly two arguments when length is
\* absent; arg and length are passed through and start is incremented once.
C7_SubstrShiftsStartOnce ==
    (cpc = "done" /\ call.kind = "Substring") =>
        /\ ret.tag = "func"
        /\ ret.name = "substring"
        /\ ret.args[1] = Translate(CallArg(1))
        /\ ret.args[2] = BinOp("+", Translate(CallArg(2)), Bind(1))
        /\ EvalSQL(ret.args[2]) = NumV(CallArg(2).n + 1, 1)
        /\ IF CallArg(3) = None
             THEN Len(ret.args) = 2
             ELSE Len(ret.args) = 3 /\ ret.args[3] = Translate(CallArg(3))

C7_Witness ==
    /\ cpc = "done"
    /\ call.kind = "Substring"
    /\ CallArg(2).n = 2
    /\ CallArg(3) = None
    /\ Len(ret.args) = 2

CastTypeOf(kind) == IF kind = "Mean" THEN "float64" ELSE "int32"

CastArgExpected ==
    IF CallArg(1).ty = "boolean"
      THEN ExprCast(CallArg(1), CastTypeOf(call.kind))
      ELSE CallArg(1)

FloorOfQuotient(a, b) == IF b > 0 THEN a \div b ELSE (-a) \div (-b)

\* C10: for integers a and b, b # 0, the expression emitted for FloorDivide
\* evaluates to the floor of the exact quotient a/b.
C10_FloorDivideIsFloor ==
    (cpc = "executed" /\ call.kind = "FloorDivide" /\ CallArg(2).n # 0) =>
        val = NumV(FloorOfQuotient(CallArg(1).n, CallArg(2).n), 1)

RECURSIVE ReachableFrom(_, _)
ReachableFrom(g, S) ==
    LET N == S \cup UNION { { g[n][i].op : i \in { j \in DOMAIN g[n] : g[n][j].t = "expr" } } : n \in S }
    IN  IF N = S THEN S ELSE ReachableFrom(g, N)

\* the numeric argument values of the nodes reachable from the root
ParamValues(g) ==
    LET R == ReachableFrom(g, {1})
    IN  UNION { { g[n][i].v : i \in { j \in DOMAIN g[n] : IsNumber(g[n][j]) } } : n \in R }

Terminated == fpc \in {"returned", "raised"}

\* C3: _find_params raises no error and returns a list holding each numeric
\* argument value of the nodes reachable from the root exactly once, and
\* nothing else.
C3_FindParamsComplete ==
    Terminated =>
        /\ fret.tag = "list"
        /\ \A i \in DOMAIN fret.items : IsNumber(fret.items[i])
        /\ { fret.items[i].v : i \in DOMAIN fret.items } = ParamValues(expr)
        /\ Len(fret.items) = Cardinality(ParamValues(expr))

\* the numeric argument values in order of appearance, left to right and
\* depth first, from node n; path holds the nodes being expanded
RECURSIVE InOrder(_, _, _, _)
InOrder(g, n, i, path) ==
    IF i > Len(g[n]) THEN <<>>
    ELSE LET a == g[n][i]
             here == IF IsNumber(a) THEN <<a.v>>
                     ELSE IF a.t = "expr" /\ a.op \notin path
                            THEN InOrder(g, a.op, 1, path \cup {a.op})
                            ELSE <<>>
         IN  here \o InOrder(g, n, i + 1, path)

\* C5: when the expression holds exactly two distinct numeric parameters,
\* the first element of the returned list is the one that appears first.
C5_FirstParamFirst ==
    (fpc = "returned" /\ Cardinality(ParamValues(expr)) = 2) =>
        fret.items[1].v = InOrder(expr, 1, 1, {1})[1]

NoDuplicates(s) == \A i, j \in DOMAIN s : s[i] = s[j] => i = j

\* C9: _find_params expands every node at most once and never stops short
\* of returning: until it has returned, it has a step to take.
C9_FindParamsReturns ==
    /\ NoDuplicates(seen)
    /\ fpc = "returned" \/ ENABLED NextFind
====
